---- MODULE Spec2Model ----
(***************************************************************************)
(* Model of server/api/routes/extension.py: the Flask handler              *)
(* assignmentsList behind GET /extensionAssignment.                        *)
(*                                                                         *)
(* A string is a sequence of characters, a character a one-token string.   *)
(* The handler is modelled step by step (read the parameter, test it,      *)
(* lowercase it, build the dictionary, look the key up, respond) for       *)
(* several requests in flight at once, each with its own frame of locals,  *)
(* as Flask runs one invocation of the view function per request.          *)
(***************************************************************************)
EXTENDS Integers, Sequences, FiniteSets, TLC

(* ------------------------------------------------------------------ *)
(* Bounds                                                              *)
(* ------------------------------------------------------------------ *)

\* number of request slots that can be in flight at the same time
NumRequests == 2

\* number of characters of a base identity whose casing an input may change
MaxRecased == 1

Requests == 1..NumRequests

(* ------------------------------------------------------------------ *)
(* Characters and str.lower()                                          *)
(* ------------------------------------------------------------------ *)

UpperLetters ==
  << "A","B","C","D","E","F","G","H","I","J","K","L","M",
     "N","O","P","Q","R","S","T","U","V","W","X","Y","Z" >>

LowerLetters ==
  << "a","b","c","d","e","f","g","h","i","j","k","l","m",
     "n","o","p","q","r","s","t","u","v","w","x","y","z" >>

\* U+0131 LATIN SMALL LETTER DOTLESS I: a lowercase letter whose uppercase
\* is "I" ('ı'.upper() == 'I') and whose lowercase is itself.
DotlessI == "U+0131"

OtherChars == { "0", "1", "2", "3", "_", " ", "!" }

Letters == { UpperLetters[i] : i \in 1..Len(UpperLetters) }
             \cup { LowerLetters[i] : i \in 1..Len(LowerLetters) }
             \cup { DotlessI }

Alphabet == Letters \cup OtherChars

\* the mutant of LowerChar: no case conversion at all
LowerCharKeep(c) == c

\* str.lower() on one character
LowerChar(c) ==
  IF \E i \in 1..Len(UpperLetters) : UpperLetters[i] = c
    THEN LowerLetters[CHOOSE i \in 1..Len(UpperLetters) : UpperLetters[i] = c]
    ELSE c

\* str.upper() on one character (used to enumerate inputs and to say what
\* "differs only in letter casing" means)
UpperChar(c) ==
  IF \E i \in 1..Len(LowerLetters) : LowerLetters[i] = c
    THEN UpperLetters[CHOOSE i \in 1..Len(LowerLetters) : LowerLetters[i] = c]
    ELSE IF c = DotlessI THEN "I" ELSE c

RECURSIVE Lower(_)
\* identity.lower(): character by character, left to right
Lower(s) == IF s = << >> THEN << >> ELSE << LowerChar(Head(s)) >> \o Lower(Tail(s))

(* ------------------------------------------------------------------ *)
(* Values                                                              *)
(* ------------------------------------------------------------------ *)

\* Python's None, and a str value: request.args.get returns one or the other
None == [present |-> FALSE, value |-> << >>]
Str(s) == [present |-> TRUE, value |-> s]

\* the mutant of Falsy: `identity is None`
FalsyNoneOnly(v) == ~v.present
\* the mutant of Falsy: `identity == ""`
FalsyEmptyOnly(v) == v.present /\ v.value = << >>
\* `not identity`: None and the empty string are falsy
Falsy(v) == ~v.present \/ v.value = << >>

Key_iainmac32 == << "i","a","i","n","m","a","c","3","2" >>
Key_test == << "t","e","s","t" >>

\* the dictionary literal assignments_by_user
AssignmentsByUser ==
  [k \in {Key_iainmac32, Key_test} |->
     IF k = Key_iainmac32 THEN << "Assignment 1!", "Assignment 2!!" >>
                          ELSE << "test1assignment" >>]

\* the fallback of assignments_by_user.get(identity, [...])
DefaultAssignments == << "test1assignment" >>

EmptyDict == [k \in {} |-> << >>]

\* the mutant of DictGet: a missing key yields nothing instead of the fallback
DictGetNoDefault(m, k, d) == IF k \in DOMAIN m THEN m[k] ELSE << >>
\* dict.get(k, d)
DictGet(m, k, d) == IF k \in DOMAIN m THEN m[k] ELSE d

\* jsonify(...) answers 200
StatusOK == 200

NoResponse == [status |-> 0, body |-> [assignments |-> << >>]]
\* an uncaught exception in a view function answers 500
ErrorResponse == [status |-> 500, body |-> [assignments |-> << >>]]

\* jsonify({"assignments": []})
JsonifyEmpty == [status |-> StatusOK, body |-> [assignments |-> << >>]]
\* jsonify({"identity": identity, "assignments": assignments})
JsonifyResult(id, asg) ==
  [status |-> StatusOK, body |-> [identity |-> id, assignments |-> asg]]

\* the whole handler run alone, start to end, on one value of the parameter
assignmentsList(arg) ==
  IF Falsy(arg)
    THEN JsonifyEmpty
    ELSE JsonifyResult(Lower(arg.value),
                       DictGet(AssignmentsByUser, Lower(arg.value), DefaultAssignments))

(* ------------------------------------------------------------------ *)
(* Inputs                                                              *)
(* ------------------------------------------------------------------ *)

Id_IainMac32 == << "I","a","i","n","M","a","c","3","2" >>
Id_TEST == << "T","E","S","T" >>
Id_unknown_user == << "u","n","k","n","o","w","n","_","u","s","e","r" >>
Id_bob == << "b","o","b" >>
Id_space == << " " >>
Id_digits == << "3","2" >>

\* the characters that are case forms of the same letter as c
CaseClass(c) == { d \in Alphabet : UpperChar(d) = UpperChar(c) }

RECURSIVE Recased(_, _)
\* base with the casing of at most k characters changed
Recased(base, k) ==
  IF k = 0 THEN { base }
  ELSE Recased(base, k - 1) \cup
       { [t EXCEPT ![i] = d] :
           <<t, i, d>> \in { x \in Recased(base, k - 1) \X (1..Len(base)) \X Alphabet :
                               x[3] \in CaseClass(base[x[2]]) } }

\* the values of the query parameter the concurrent specification sends
RequestArgs ==
  { None, Str(<< >>), Str(Key_test), Str(Id_IainMac32), Str(Id_unknown_user), Str(Id_space) }

\* the values of the query parameter the casing specification sends
CasingArgs ==
  { None, Str(<< >>), Str(Id_IainMac32), Str(Id_TEST), Str(Id_unknown_user),
    Str(Id_space), Str(Id_digits) }
  \cup { Str(s) : s \in Recased(Key_iainmac32, MaxRecased) }
  \cup { Str(s) : s \in Recased(Key_test, MaxRecased) }
  \cup { Str(s) : s \in Recased(Id_bob, MaxRecased) }

(* ------------------------------------------------------------------ *)
(* State                                                               *)
(* ------------------------------------------------------------------ *)

VARIABLES
  pc,                  \* where each request's invocation stands
  request_args,        \* request.args.get("identity") of each request
  identity,            \* the local `identity`
  assignments_by_user, \* the local `assignments_by_user`
  assignments,         \* the local `assignments`
  response,            \* what the invocation returned
  preceded             \* history: another request had finished when this one arrived

vars == << pc, request_args, identity, assignments_by_user, assignments, response, preceded >>

Init ==
  /\ pc = [r \in Requests |-> "idle"]
  /\ request_args = [r \in Requests |-> None]
  /\ identity = [r \in Requests |-> None]
  /\ assignments_by_user = [r \in Requests |-> EmptyDict]
  /\ assignments = [r \in Requests |-> << >>]
  /\ response = [r \in Requests |-> NoResponse]
  /\ preceded = [r \in Requests |-> FALSE]

(* ------------------------------------------------------------------ *)
(* The handler, one action per step                                    *)
(* ------------------------------------------------------------------ *)

\* Flask dispatches a GET /extensionAssignment request to a fresh invocation
Receive(r, arg) ==
  /\ pc[r] \in {"idle", "done"}
  /\ pc' = [pc EXCEPT ![r] = "get"]
  /\ request_args' = [request_args EXCEPT ![r] = arg]
  /\ identity' = [identity EXCEPT ![r] = None]
  /\ assignments_by_user' = [assignments_by_user EXCEPT ![r] = EmptyDict]
  /\ assignments' = [assignments EXCEPT ![r] = << >>]
  /\ response' = [response EXCEPT ![r] = NoResponse]
  /\ preceded' = [preceded EXCEPT ![r] = \E q \in Requests \ {r} : pc[q] = "done"]

\* identity = request.args.get("identity")
GetIdentity(r) ==
  /\ pc[r] = "get"
  /\ identity' = [identity EXCEPT ![r] = request_args[r]]
  /\ pc' = [pc EXCEPT ![r] = "check"]
  /\ UNCHANGED << request_args, assignments_by_user, assignments, response, preceded >>

\* the mutant of ReturnEmpty: the early return carries an identity field
ReturnEmptyWithIdentity(r) ==
  /\ pc[r] = "check"
  /\ Falsy(identity[r])
  /\ response' = [response EXCEPT ![r] = JsonifyResult(identity[r].value, << >>)]
  /\ pc' = [pc EXCEPT ![r] = "done"]
  /\ UNCHANGED << request_args, identity, assignments_by_user, assignments, preceded >>

\* if not identity: return jsonify({"assignments": []})
ReturnEmpty(r) ==
  /\ pc[r] = "check"
  /\ Falsy(identity[r])
  /\ response' = [response EXCEPT ![r] = JsonifyEmpty]
  /\ pc' = [pc EXCEPT ![r] = "done"]
  /\ UNCHANGED << request_args, identity, assignments_by_user, assignments, preceded >>

\* the mutant of Lowercase: `identity` is one module-level variable that every
\* invocation in flight reads and writes
LowercaseShared(r) ==
  /\ pc[r] = "check"
  /\ ~Falsy(identity[r])
  /\ identity' = [q \in Requests |->
                    IF q = r \/ pc[q] \in {"build", "lookup", "respond"}
                      THEN Str(Lower(identity[r].value)) ELSE identity[q]]
  /\ pc' = [pc EXCEPT ![r] = "build"]
  /\ UNCHANGED << request_args, assignments_by_user, assignments, response, preceded >>

\* identity = identity.lower(); None has no lower(): the AttributeError would
\* end the invocation with a 500
Lowercase(r) ==
  /\ pc[r] = "check"
  /\ ~Falsy(identity[r])
  /\ IF identity[r].present
       THEN /\ identity' = [identity EXCEPT ![r] = Str(Lower(identity[r].value))]
            /\ pc' = [pc EXCEPT ![r] = "build"]
            /\ UNCHANGED response
       ELSE /\ response' = [response EXCEPT ![r] = ErrorResponse]
            /\ pc' = [pc EXCEPT ![r] = "error"]
            /\ UNCHANGED identity
  /\ UNCHANGED << request_args, assignments_by_user, assignments, preceded >>

\* assignments_by_user = {...}
BuildMapping(r) ==
  /\ pc[r] = "build"
  /\ assignments_by_user' = [assignments_by_user EXCEPT ![r] = AssignmentsByUser]
  /\ pc' = [pc EXCEPT ![r] = "lookup"]
  /\ UNCHANGED << request_args, identity, assignments, response, preceded >>

\* the mutant of Lookup: assignments_by_user.setdefault(identity, [...]),
\* which stores the fallback under a missing key
LookupSetdefault(r) ==
  /\ pc[r] = "lookup"
  /\ assignments' = [assignments EXCEPT ![r] =
       DictGet(assignments_by_user[r], identity[r].value, DefaultAssignments)]
  /\ assignments_by_user' = [assignments_by_user EXCEPT ![r] =
       [k \in DOMAIN assignments_by_user[r] \cup {identity[r].value} |->
          DictGet(assignments_by_user[r], k, DefaultAssignments)]]
  /\ pc' = [pc EXCEPT ![r] = "respond"]
  /\ UNCHANGED << request_args, identity, response, preceded >>

\* the mutant of Lookup: the key is the parameter as it was sent
LookupRaw(r) ==
  /\ pc[r] = "lookup"
  /\ assignments' = [assignments EXCEPT ![r] =
       DictGet(assignments_by_user[r], request_args[r].value, DefaultAssignments)]
  /\ pc' = [pc EXCEPT ![r] = "respond"]
  /\ UNCHANGED << request_args, identity, assignments_by_user, response, preceded >>

\* assignments = assignments_by_user.get(identity, ["test1assignment"])
Lookup(r) ==
  /\ pc[r] = "lookup"
  /\ assignments' = [assignments EXCEPT ![r] =
       DictGet(assignments_by_user[r], identity[r].value, DefaultAssignments)]
  /\ pc' = [pc EXCEPT ![r] = "respond"]
  /\ UNCHANGED << request_args, identity, assignments_by_user, response, preceded >>

\* the mutant of Respond: the identity field keeps the casing that was sent
RespondOriginalCasing(r) ==
  /\ pc[r] = "respond"
  /\ response' = [response EXCEPT ![r] =
       JsonifyResult(request_args[r].value, assignments[r])]
  /\ pc' = [pc EXCEPT ![r] = "done"]
  /\ UNCHANGED << request_args, identity, assignments_by_user, assignments, preceded >>

\* return jsonify({"identity": identity, "assignments": assignments})
Respond(r) ==
  /\ pc[r] = "respond"
  /\ response' = [response EXCEPT ![r] = JsonifyResult(identity[r].value, assignments[r])]
  /\ pc' = [pc EXCEPT ![r] = "done"]
  /\ UNCHANGED << request_args, identity, assignments_by_user, assignments, preceded >>

\* one step of the invocation serving request r
Step(r) ==
  \/ GetIdentity(r)
  \/ ReturnEmpty(r)
  \/ Lowercase(r)
  \/ BuildMapping(r)
  \/ Lookup(r)
  \/ Respond(r)

(* ------------------------------------------------------------------ *)
(* Specifications                                                      *)
(* ------------------------------------------------------------------ *)

\* any number of requests, one after another or overlapping
Next ==
  \/ \E r \in Requests, arg \in RequestArgs : Receive(r, arg)
  \/ \E r \in Requests : Step(r)

Spec == Init /\ [][Next]_vars

\* the two requests of a comparison
Pair == {1, 2}

\* two requests whose parameters range over the case forms of the identities
CasingNext ==
  \/ \E r \in Pair, arg \in CasingArgs : pc[r] = "idle" /\ Receive(r, arg)
  \/ \E r \in Pair : Step(r)

SpecCasing == Init /\ [][CasingNext]_vars

(* ------------------------------------------------------------------ *)
(* Vocabulary of the properties                                        *)
(* ------------------------------------------------------------------ *)

Done(r) == pc[r] = "done"

\* the parameter was omitted or sent empty
AbsentOrEmpty(a) == a = None \/ a = Str(<< >>)

\* the body {"assignments": []}
EmptyBody == [assignments |-> << >>]

Labels_iainmac32 == << "Assignment 1!", "Assignment 2!!" >>
Labels_test == << "test1assignment" >>
Labels_default == << "test1assignment" >>

HasIdentityField(resp) == "identity" \in DOMAIN resp.body

IsUpperLetter(c) == \E i \in 1..Len(UpperLetters) : UpperLetters[i] = c

\* a and b have the same length and, position by position, the same
\* character or a letter and its upper- or lowercase form
DifferOnlyInCasing(a, b) ==
  /\ Len(a) = Len(b)
  /\ \A i \in 1..Len(a) :
       \/ a[i] = b[i]
       \/ a[i] = UpperChar(b[i])
       \/ b[i] = UpperChar(a[i])
       \/ a[i] = LowerChar(b[i])
       \/ b[i] = LowerChar(a[i])

(* ------------------------------------------------------------------ *)
(* Properties                                                          *)
(* ------------------------------------------------------------------ *)

\* C1: a request whose identity parameter is absent or empty is answered with
\* exactly {"assignments": []}: an empty sequence and no identity field.
C1_EmptyPayload ==
  \A r \in Requests :
    (Done(r) /\ AbsentOrEmpty(request_args[r])) =>
      /\ response[r].body = EmptyBody
      /\ ~HasIdentityField(response[r])

C1_Witness ==
  \E r, q \in Requests :
    /\ Done(r) /\ request_args[r] = None /\ response[r].body = EmptyBody
    /\ Done(q) /\ request_args[q] = Str(<< >>) /\ response[q].body = EmptyBody

\* C2: a non-empty identity whose lowercased form is a key of the mapping, in
\* any casing, is answered with the sequence the mapping holds for that key.
C2_KnownIdentity ==
  \A r \in Requests :
    (Done(r) /\ ~AbsentOrEmpty(request_args[r])) =>
      /\ (Lower(request_args[r].value) = Key_iainmac32
            => response[r].body.assignments = Labels_iainmac32)
      /\ (Lower(request_args[r].value) = Key_test
            => response[r].body.assignments = Labels_test)
      /\ (request_args[r].value \in {Id_IainMac32, Key_iainmac32}
            => response[r].body.assignments = Labels_iainmac32)
      /\ (request_args[r].value \in {Id_TEST, Key_test}
            => response[r].body.assignments = Labels_test)

C2_Witness ==
  \E r, q \in Requests :
    /\ Done(r) /\ request_args[r] = Str(Id_IainMac32)
    /\ response[r].body.assignments = Labels_iainmac32
    /\ Done(q) /\ request_args[q] = Str(Id_TEST)
    /\ response[q].body.assignments = Labels_test

\* C3: a non-empty identity whose lowercased form is no key of the mapping
\* (whitespace and other non-letters included) is answered with the default
\* sequence of the single label "test1assignment", in a success response.
C3_UnknownIdentity ==
  \A r \in Requests :
    (/\ Done(r)
     /\ ~AbsentOrEmpty(request_args[r])
     /\ Lower(request_args[r].value) \notin {Key_iainmac32, Key_test}) =>
      /\ response[r].body.assignments = Labels_default
      /\ response[r].status = StatusOK

C3_Witness ==
  \E r, q \in Requests :
    /\ Done(r) /\ request_args[r] = Str(Id_space)
    /\ response[r].body.assignments = Labels_default
    /\ Done(q) /\ request_args[q] = Str(Id_unknown_user)
    /\ response[q].body.assignments = Labels_default

\* C4: when a non-empty identity is provided, the response has an identity
\* field holding the lowercased identity (not the identity as sent, when that
\* has an uppercase letter), next to the assignments field, found or not.
C4_LowercasedIdentityField ==
  \A r \in Requests :
    (Done(r) /\ ~AbsentOrEmpty(request_args[r])) =>
      /\ DOMAIN response[r].body = {"identity", "assignments"}
      /\ response[r].body.identity = Lower(request_args[r].value)
      /\ (\E i \in 1..Len(request_args[r].value) : IsUpperLetter(request_args[r].value[i]))
           => response[r].body.identity # request_args[r].value
      /\ (request_args[r].value = Id_IainMac32 => response[r].body.identity = Key_iainmac32)

C4_Witness ==
  \E r, q \in Requests :
    /\ Done(r) /\ request_args[r] = Str(Id_IainMac32)
    /\ response[r].body.identity = Key_iainmac32
    /\ Done(q) /\ request_args[q] = Str(<< "B", "o", "b" >>)
    /\ response[q].body.identity = Id_bob
    /\ response[q].body.assignments = Labels_default

\* C5: no invocation reaches an error: an invocation in flight always has a
\* next step, none is in the error state, and every finished one answered 200.
C5_NoErrorPath ==
  \A r \in Requests :
    /\ pc[r] # "error"
    /\ response[r] # ErrorResponse
    /\ (pc[r] \notin {"idle", "done"} => ENABLED Step(r))
    /\ (Done(r) => response[r].status = StatusOK)

C5_Witness ==
  \E r, q \in Requests :
    /\ Done(r) /\ request_args[r] = None /\ response[r].status = StatusOK
    /\ Done(q) /\ request_args[q] = Str(Id_space) /\ response[q].status = StatusOK

\* C6: no request changes the mapping: once built, an invocation's mapping
\* holds exactly the two entries, whatever was looked up in it, and a request
\* that arrives after another has finished is answered as if it ran alone.
C6_MappingUnchanged ==
  \A r \in Requests :
    /\ (pc[r] \in {"lookup", "respond"} \/ (Done(r) /\ ~AbsentOrEmpty(request_args[r]))) =>
         /\ DOMAIN assignments_by_user[r] = {Key_iainmac32, Key_test}
         /\ assignments_by_user[r][Key_iainmac32] = Labels_iainmac32
         /\ assignments_by_user[r][Key_test] = Labels_test
    /\ (Done(r) /\ preceded[r]) => response[r] = assignmentsList(request_args[r])

C6_Witness ==
  \E r, q \in Requests :
    /\ r # q
    /\ Done(q) /\ request_args[q] = Str(Id_unknown_user)
    /\ Done(r) /\ preceded[r] /\ request_args[r] = Str(Id_IainMac32)
    /\ DOMAIN assignments_by_user[q] = {Key_iainmac32, Key_test}
    /\ response[r].body.assignments = Labels_iainmac32

\* C7: the handler is idempotent: two finished requests with the same
\* identity parameter carry the same response, however many requests were
\* served before either.
C7_Idempotent ==
  \A r, q \in Requests :
    (Done(r) /\ Done(q) /\ request_args[r] = request_args[q]) =>
      response[r] = response[q]

C7_Witness ==
  \E r, q \in Requests :
    /\ r # q
    /\ Done(r) /\ Done(q) /\ preceded[q]
    /\ request_args[r] = Str(Id_IainMac32)
    /\ request_args[q] = Str(Id_IainMac32)
    /\ response[r] = response[q]

\* C8: under every interleaving of the steps of simultaneous requests, each
\* request's locals and response are those fixed by its own identity
\* parameter and the mapping: what it gets when run alone.
C8_ConcurrentIsolation ==
  \A r \in Requests :
    /\ pc[r] \in {"get", "check"} => identity[r] \in {None, request_args[r]}
    /\ pc[r] \in {"build", "lookup", "respond"} =>
         identity[r] = Str(assignmentsList(request_args[r]).body.identity)
    /\ pc[r] = "respond" =>
         assignments[r] = assignmentsList(request_args[r]).body.assignments
    /\ Done(r) => response[r] = assignmentsList(request_args[r])

C8_Witness ==
  \E r, q \in Requests :
    /\ pc[r] = "respond" /\ pc[q] \in {"build", "lookup"}
    /\ request_args[r] = Str(Id_IainMac32)
    /\ request_args[q] = Str(Id_unknown_user)
    /\ assignments[r] = Labels_iainmac32
    /\ identity[q] = Str(Id_unknown_user)

\* C9 as stated: two non-empty identities that differ only in letter casing
\* get the same response, identity field and assignments alike.
C9_CaseInsensitive_Original ==
  \A r, q \in Pair :
    (/\ Done(r) /\ Done(q)
     /\ ~AbsentOrEmpty(request_args[r]) /\ ~AbsentOrEmpty(request_args[q])
     /\ DifferOnlyInCasing(request_args[r].value, request_args[q].value)) =>
      response[r] = response[q]

\* C9 amended: two non-empty identities with the same lowercased form (as any
\* two that differ only in the casing of ASCII letters have) get the same
\* response, and the key looked up is the lowercased form of the identity sent.
C9_SameLowercaseSameResponse ==
  /\ \A r, q \in Pair :
       (/\ Done(r) /\ Done(q)
        /\ ~AbsentOrEmpty(request_args[r]) /\ ~AbsentOrEmpty(request_args[q])
        /\ Lower(request_args[r].value) = Lower(request_args[q].value)) =>
         response[r] = response[q]
  /\ \A r \in Pair :
       pc[r] = "lookup" => identity[r].value = Lower(request_args[r].value)

C9_Witness ==
  \E r, q \in Pair :
    /\ Done(r) /\ Done(q)
    /\ request_args[r] = Str(Id_IainMac32)
    /\ request_args[q] = Str(Key_iainmac32)
    /\ response[r] = response[q]
    /\ response[r].body.assignments = Labels_iainmac32

\* C10: every response carries one of three assignment sequences, the empty
\* one exactly when it has no identity field, and identity test gets the same
\* assignments as an unknown identity.
C10_ResponseShape ==
  /\ \A r \in Requests :
       Done(r) =>
         /\ response[r].body.assignments \in { << >>, Labels_iainmac32, Labels_test }
         /\ (response[r].body.assignments = << >>) <=> ~HasIdentityField(response[r])
  /\ \A r, q \in Requests :
       (/\ Done(r) /\ request_args[r] = Str(Key_test)
        /\ Done(q) /\ request_args[q] \in {Str(Id_unknown_user), Str(Id_space)}) =>
         response[r].body.assignments = response[q].body.assignments

C10_Witness ==
  \E r, q \in Requests :
    /\ Done(r) /\ request_args[r] = Str(Key_test) /\ HasIdentityField(response[r])
    /\ Done(q) /\ request_args[q] = Str(Id_unknown_user)
    /\ response[r].body.assignments = response[q].body.assignments
    /\ response[r].body.assignments # << >>

====
